---- MODULE Spec2Model ----
(***************************************************************************)
(* PageIndex tree RAG (comparison/modules/pageindex_rag.py) with the       *)
(* NCloud model-call client (comparison/modules/ncloud_llm.py).            *)
(*                                                                         *)
(* Several specifications share this module:                                   *)
(*   Spec      the tree store / tree builder of one PageIndexRAG instance: *)
(*             build_tree as a sequence of steps over the cache files and  *)
(*             the in-memory tree map, with the retry loop of              *)
(*             NCloudLLM.generate in the middle;                           *)
(*   SpecAddr  node addressing as pure functions: _add_node_ids and        *)
(*             _find_node applied to every tree of a bounded size.         *)
(***************************************************************************)
EXTENDS Integers, Sequences, FiniteSets, TLC

VARIABLES
    cache,      \* cache file of each document: [exists, val]
    trees,      \* self.trees of the PageIndexRAG instance: [exists, val]
    pc,         \* position of the caller inside build_tree
    doc,        \* pdf_path argument of the running build_tree
    force,      \* force_rebuild argument of the running build_tree
    attempt,    \* loop variable of NCloudLLM.generate
    genEnd,     \* how generate ended: "none", "return", "fallthrough", "raise"
    resp,       \* the text generate returned
    toc,        \* local variable toc / tree of build_tree
    outcome,    \* "none", "returned" or "raised"
    result,     \* the value build_tree returned
    hit,        \* the running build_tree took the cache branch
    calls,      \* model calls (generate invocations) issued by the running build_tree
    wrote,      \* the running build_tree has opened its cache file for writing
    pre,        \* the cache entry of doc when the running build_tree was called
    prev,       \* the previous build_tree, when it was a cache hit: [valid, doc, val]
    aT,         \* SpecAddr: the tree under address assignment
    aPrev,      \* SpecAddr: the tree before the latest _add_node_ids
    aPass,      \* SpecAddr: how many times _add_node_ids has run on aT
    aTarget,    \* SpecAddr: path of the node whose address was looked up
    aFound,     \* SpecAddr: what _find_node returned for it
    sStage,     \* search: "none", "ensure" (inside its build_tree) or "nav"
    sTopK,      \* search: top_k
    sTree,      \* search: local variable tree
    sN,         \* search: len(page_list)
    sBlank,     \* search: the 0-based pages whose text is blank
    sRel,       \* search: local variable relevant_nodes
    sOutcome,   \* search: "none", "returned" or "raised"
    sResults,   \* search: the list search returned
    rQuery,     \* route: query, as its whitespace-split tokens
    rDocs,      \* route: documents
    rTopK,      \* route: top_k
    rSel,       \* route: local variable selected_docs
    rOut,       \* route: the list route returned
    rVia,       \* route: "none", "valid" (line 117) or "except" (line 122)
    gLog,       \* generate: its HTTP attempts so far, each with the sleep after it
    pKind,      \* pipeline: "none", "eval" (Evaluator) or "ui" (compare_answers)
    pStage,     \* pipeline: position in the handling of the query
    pSel,       \* pipeline: selected_docs
    pIdx,       \* pipeline: index of the document the loop is at
    pHave,      \* pipeline: number of results collected so far
    pLog,       \* pipeline: the calls made for the query, in order
    file,       \* race: content of each cache file: [exists, data]
    bPc,        \* race: position of each builder inside build_tree
    bDoc,       \* race: pdf_path of each builder
    bToc,       \* race: toc of each builder, addressed
    bPos,       \* race: offset of each builder's open file
    bRes,       \* race: what build_tree gave each builder: [kind, val]
    bMem        \* race: self.trees, shared by the builders

buildVars == <<cache, trees, pc, doc, force, attempt, genEnd, resp, toc, outcome,
               result, hit, calls, wrote, pre, prev>>
addrVars == <<aT, aPrev, aPass, aTarget, aFound>>
searchVars == <<sStage, sTopK, sTree, sN, sBlank, sRel, sOutcome, sResults>>
routeVars == <<rQuery, rDocs, rTopK, rSel, rOut, rVia>>
genVars == <<gLog>>
pipeVars == <<pKind, pStage, pSel, pIdx, pHave, pLog>>
raceVars == <<file, bPc, bDoc, bToc, bPos, bRes, bMem>>
sideVars == <<genVars, pipeVars, raceVars>>
vars == <<buildVars, addrVars, searchVars, routeVars, sideVars>>

(***************************************************************************)
(* Bounds of the model.                                                    *)
(***************************************************************************)
\* Trees given to _add_node_ids / _find_node have at most this many items.
MaxNodes == 3
\* _add_node_ids is applied to the same tree at most this many times.
MaxPasses == 2
\* search is called with top_k in 1..MaxTopK.
MaxTopK == 3
\* SpecSearch: documents have 0..MaxPages pages.
MaxPages == 3
\* The most items in an array the router's model answers with.
MaxItems == 2

(***************************************************************************)
(* JSON values.  Python's json.loads yields untyped values; the code tells *)
(* them apart with isinstance.  Every value is a record of one shape:      *)
(*   t     "list", "dict" or "other" (a scalar: string, number, null)      *)
(*   title the dict's "title" ("" when the key is missing)                 *)
(*   page  the dict's "page": [k, n], k one of "int", "str", "null",       *)
(*         "none" (key missing); n is the number when k = "int"            *)
(*   id    the dict's "node_id" ("" when the key is missing)               *)
(*   ch    the dict has a "children" key                                   *)
(*   tr    truthiness of a scalar                                          *)
(*   kids  the items of a list; for a dict with ch, the one value stored   *)
(*         under "children"                                                *)
(***************************************************************************)
NoPage == [k |-> "none", n |-> 0]
IntPage(n) == [k |-> "int", n |-> n]
StrPage == [k |-> "str", n |-> 0]
NullPage == [k |-> "null", n |-> 0]

JList(items) ==
    [t |-> "list", title |-> "", page |-> NoPage, id |-> "", ch |-> FALSE,
     tr |-> FALSE, kids |-> items]

JDict(title, page, id) ==
    [t |-> "dict", title |-> title, page |-> page, id |-> id, ch |-> FALSE,
     tr |-> FALSE, kids |-> <<>>]

JDictCh(title, page, id, children) ==
    [t |-> "dict", title |-> title, page |-> page, id |-> id, ch |-> TRUE,
     tr |-> FALSE, kids |-> <<children>>]

JScalar(truthy) ==
    [t |-> "other", title |-> "", page |-> NoPage, id |-> "", ch |-> FALSE,
     tr |-> truthy, kids |-> <<>>]

JNull == JScalar(FALSE)

\* Python truthiness: a list or dict is truthy when it is not empty.
Truthy(v) ==
    CASE v.t = "list" -> Len(v.kids) > 0
      [] v.t = "dict" -> v.title # "" \/ v.page.k # "none" \/ v.id # "" \/ v.ch
      [] OTHER -> v.tr

(***************************************************************************)
(* Node addressing: PageIndexRAG._add_node_ids.                            *)
(* The Python code mutates the tree in place; here the mutated tree is the *)
(* value of the operator.  i ranges over 1..len, so i is Python's i+1.     *)
(***************************************************************************)
RECURSIVE AddNodeIds(_, _)

\* Faulty variant: 0-based positions (str(i) instead of str(i+1)).
RECURSIVE AddNodeIdsZeroBased(_, _)
AddNodeIdsZeroBased(t, prefix) ==
    IF t.t = "list"
    THEN [t EXCEPT !.kids =
            [i \in 1..Len(t.kids) |->
                LET node == t.kids[i]
                    node_id == IF prefix # "" THEN prefix \o ToString(i - 1)
                                              ELSE ToString(i - 1)
                IN  IF node.t = "dict"
                    THEN IF node.ch /\ Truthy(node.kids[1])
                         THEN [node EXCEPT !.id = node_id,
                                  !.kids = <<AddNodeIdsZeroBased(node.kids[1], node_id \o ".")>>]
                         ELSE [node EXCEPT !.id = node_id]
                    ELSE node]]
    ELSE t

\* Faulty variant: the new address is appended to the address the node already carries.
RECURSIVE AddNodeIdsAppend(_, _)
AddNodeIdsAppend(t, prefix) ==
    IF t.t = "list"
    THEN [t EXCEPT !.kids =
            [i \in 1..Len(t.kids) |->
                LET node == t.kids[i]
                    node_id == IF prefix # "" THEN prefix \o ToString(i) ELSE ToString(i)
                    new_id == IF node.id # "" THEN node.id \o "." \o node_id ELSE node_id
                IN  IF node.t = "dict"
                    THEN IF node.ch /\ Truthy(node.kids[1])
                         THEN [node EXCEPT !.id = new_id,
                                  !.kids = <<AddNodeIdsAppend(node.kids[1], node_id \o ".")>>]
                         ELSE [node EXCEPT !.id = new_id]
                    ELSE node]]
    ELSE t

AddNodeIds(t, prefix) ==
    IF t.t = "list"
    THEN [t EXCEPT !.kids =
            [i \in 1..Len(t.kids) |->
                LET node == t.kids[i]
                    node_id == IF prefix # "" THEN prefix \o ToString(i) ELSE ToString(i)
                IN  IF node.t = "dict"
                    THEN IF node.ch /\ Truthy(node.kids[1])
                         THEN [node EXCEPT !.id = node_id,
                                  !.kids = <<AddNodeIds(node.kids[1], node_id \o ".")>>]
                         ELSE [node EXCEPT !.id = node_id]
                    ELSE node]]
    ELSE t

(***************************************************************************)
(* Lookup by address: PageIndexRAG._find_node.                             *)
(* The code returns the node object; the model returns where that object   *)
(* sits: the sequence of list positions from the root list down to it (a   *)
(* 0 marks a step into a "children" value that is not a list).             *)
(***************************************************************************)
NotFound == [found |-> FALSE, path |-> <<>>]

RECURSIVE FindSearch(_, _, _)
RECURSIVE FindSearchList(_, _, _, _)

ChildStep(v, path) == IF v.t = "list" THEN path ELSE path \o <<0>>

\* Faulty variant: "return search(node)" inside the loop: only the first sibling is searched.
FindSearchListFirstOnly(items, i, node_id, path) ==
    IF i > Len(items)
    THEN NotFound
    ELSE FindSearch(items[i], node_id, path \o <<i>>)

\* "for node in nodes: result = search(node); if result: return result"
FindSearchList(items, i, node_id, path) ==
    IF i > Len(items)
    THEN NotFound
    ELSE LET r == FindSearch(items[i], node_id, path \o <<i>>)
         IN  IF r.found THEN r ELSE FindSearchList(items, i + 1, node_id, path)

FindSearch(nodes, node_id, path) ==
    CASE nodes.t = "list" -> FindSearchList(nodes.kids, 1, node_id, path)
      [] nodes.t = "dict" ->
            IF nodes.id # "" /\ nodes.id = node_id
            THEN [found |-> TRUE, path |-> path]
            ELSE IF nodes.ch
                 THEN FindSearch(nodes.kids[1], node_id, ChildStep(nodes.kids[1], path))
                 ELSE NotFound
      [] OTHER -> NotFound

FindNode(tree, node_id) == FindSearch(tree, node_id, <<>>)

(***************************************************************************)
(* SpecAddr: the inputs of the pure functions.                             *)
(* Forest[n] is every sibling list with exactly n items in total, an item  *)
(* being a scalar (a non-object entry of the model's array) or a section   *)
(* node that carries no node_id or a node_id of the model's own, and has   *)
(* no "children" key, an empty list, or a list of n' < n items.            *)
(***************************************************************************)
PreIds == {"", "1"}

LeafItems ==
    {JScalar(TRUE)}
    \cup {JDict("s", IntPage(1), id0) : id0 \in PreIds}
    \cup {JDictCh("s", IntPage(1), id0, JList(<<>>)) : id0 \in PreIds}

Forest[n \in 0..MaxNodes] ==
    IF n = 0
    THEN {<<>>}
    ELSE UNION {
            LET items == IF k = 1
                         THEN LeafItems
                         ELSE {JDictCh("s", IntPage(1), id0, JList(f)) :
                                  id0 \in PreIds, f \in Forest[k - 1]}
            IN  {<<it>> \o rest : it \in items, rest \in Forest[n - k]}
            : k \in 1..n}

InputTrees == UNION {{JList(f) : f \in Forest[n]} : n \in 0..MaxNodes}

\* The value at a path of list positions (0: the non-list "children" value).
RECURSIVE NodeAt(_, _)
NodeAt(v, path) ==
    IF path = <<>>
    THEN v
    ELSE LET below == IF v.t = "list" THEN v
                      ELSE v.kids[1]
         IN  IF below.t = "list"
             THEN NodeAt(below.kids[Head(path)], Tail(path))
             ELSE NodeAt(below, Tail(path))

\* Paths of the section nodes of a tree: the dicts reached from the root list
\* through "children" lists only.
RECURSIVE NodePaths(_, _)
NodePaths(v, path) ==
    CASE v.t = "list" ->
            UNION {NodePaths(v.kids[i], path \o <<i>>) : i \in 1..Len(v.kids)}
      [] v.t = "dict" ->
            {path} \cup (IF v.ch /\ v.kids[1].t = "list"
                         THEN NodePaths(v.kids[1], path)
                         ELSE {})
      [] OTHER -> {}

\* The dotted address of a path: "2.1.3" for <<2, 1, 3>>.
RECURSIVE Dotted(_)
Dotted(path) ==
    IF Len(path) = 1
    THEN ToString(path[1])
    ELSE Dotted(SubSeq(path, 1, Len(path) - 1)) \o "." \o ToString(path[Len(path)])

(***************************************************************************)
(* SpecAddr: _add_node_ids and _find_node applied to the input trees.      *)
(***************************************************************************)
InitAddrIdle ==
    /\ aT = JList(<<>>)
    /\ aPrev = JList(<<>>)
    /\ aPass = 0
    /\ aTarget = <<>>
    /\ aFound = NotFound

\* self._add_node_ids(toc)
AssignAddresses ==
    /\ aPass < MaxPasses
    /\ aPrev' = aT
    /\ aT' = AddNodeIds(aT, "")
    /\ aPass' = aPass + 1
    /\ UNCHANGED <<aTarget, aFound>>

\* self._find_node(tree, node_id) with the address of the node at path p
FindByAddress(p) ==
    /\ aPass >= 1
    /\ aTarget' = p
    /\ aFound' = FindNode(aT, NodeAt(aT, p).id)
    /\ UNCHANGED <<aT, aPrev, aPass>>

(***************************************************************************)
(* Spec: documents, model responses, parsing.                              *)
(***************************************************************************)
Docs == {"a.pdf", "b.pdf"}

\* len(page_list) of each document
NumPages(d) == IF d = "a.pdf" THEN 1 ELSE 3

\* What the model may put in its answer to the structure-extraction prompt.
TreeOne == JList(<<JDict("A", IntPage(1), "")>>)
TreeNested ==
    JList(<<JDictCh("A", IntPage(1), "", JList(<<JDict("B", IntPage(2), "")>>)),
            JDict("C", IntPage(3), "")>>)
TreeNoPage == JList(<<JDict("X", NoPage, "")>>)
TreeBadPage ==
    JList(<<JDict("X", StrPage, ""), JDict("Y", NullPage, ""), JDict("Z", IntPage(0), "")>>)
TreeEmpty == JList(<<>>)

TocValues == {TreeOne, TreeNested, TreeNoPage, TreeBadPage, TreeEmpty}

\* A response text: raw JSON of val, JSON of val wrapped in prose or a code
\* fence, text that holds no JSON, or the empty string.
NoText == [form |-> "empty", val |-> JNull]
Responses ==
    {[form |-> f, val |-> v] : f \in {"raw", "wrapped"}, v \in TocValues}
    \cup {[form |-> "garbage", val |-> JNull], NoText}

\* pageindex.utils.extract_json: the value, or none
ExtractJson(r) == IF r.form \in {"raw", "wrapped"} THEN r.val ELSE JNull

\* json.loads(response): strict, raises on anything but JSON text
JsonLoads(r) ==
    IF r.form = "raw" THEN [raised |-> FALSE, val |-> r.val]
                      ELSE [raised |-> TRUE, val |-> JNull]

\* toc = [{"title": "Document", "page": 1}]
FallbackToc == JList(<<JDict("Document", IntPage(1), "")>>)

\* Faulty variant: no except clause, the error of json.loads escapes.
ParseTocNoFallback(r) ==
    LET e == ExtractJson(r)
    IN  IF Truthy(e)
        THEN [raised |-> FALSE, val |-> e]
        ELSE JsonLoads(r)

\* try: toc = extract_json(response); if not toc: toc = json.loads(response)
\* except: toc = [{"title": "Document", "page": 1}]
ParseToc(r) ==
    LET e == ExtractJson(r)
    IN  IF Truthy(e)
        THEN [raised |-> FALSE, val |-> e]
        ELSE LET j == JsonLoads(r)
             IN  IF j.raised
                 THEN [raised |-> FALSE, val |-> FallbackToc]
                 ELSE [raised |-> FALSE, val |-> j.val]

\* A cache file / an entry of self.trees.
NoFile == [exists |-> FALSE, val |-> JNull]
\* json.dump(toc, f, indent=2, ensure_ascii=False)
JsonDump(v) == [exists |-> TRUE, val |-> v]
\* json.load(f)
JsonLoad(e) == e.val

\* max_retries = 3
max_retries == 3

NoPrev == [valid |-> FALSE, doc |-> "", val |-> JNull]

InitBuildIdle ==
    /\ cache = [d \in Docs |-> NoFile]
    /\ trees = [d \in Docs |-> NoFile]
    /\ pc = "idle"
    /\ doc = ""
    /\ force = FALSE
    /\ attempt = 0
    /\ genEnd = "none"
    /\ resp = NoText
    /\ toc = JNull
    /\ outcome = "none"
    /\ result = JNull
    /\ hit = FALSE
    /\ calls = 0
    /\ wrote = FALSE
    /\ pre = NoFile
    /\ prev = NoPrev

InMem(v) == [exists |-> TRUE, val |-> v]

(***************************************************************************)
(* Spec: PageIndexRAG.build_tree, step by step.                            *)
(***************************************************************************)
\* Faulty variant: the cache branch saves the loaded tree back to the file.
BuildTreeCachedResave(d) ==
    /\ pc = "idle"
    /\ cache[d].exists
    /\ doc' = d
    /\ force' = FALSE
    /\ pre' = cache[d]
    /\ hit' = TRUE
    /\ calls' = 0
    /\ wrote' = TRUE
    /\ trees' = [trees EXCEPT ![d] = InMem(JsonLoad(cache[d]))]
    /\ result' = JsonLoad(cache[d])
    /\ outcome' = "returned"
    /\ pc' = "done"
    /\ UNCHANGED <<cache, attempt, genEnd, resp, toc, prev>>

\* build_tree(pdf_path, force_rebuild=False) with the cache file present:
\* "if not force_rebuild and os.path.exists(cache_path)": load, register, return.
BuildTreeCached(d) ==
    /\ pc = "idle"
    /\ cache[d].exists
    /\ doc' = d
    /\ force' = FALSE
    /\ pre' = cache[d]
    /\ hit' = TRUE
    /\ calls' = 0
    /\ wrote' = FALSE
    /\ trees' = [trees EXCEPT ![d] = InMem(JsonLoad(cache[d]))]
    /\ result' = JsonLoad(cache[d])
    /\ outcome' = "returned"
    /\ pc' = "done"
    /\ UNCHANGED <<cache, attempt, genEnd, resp, toc, prev>>

\* build_tree on a cache miss or with force_rebuild: pages are extracted, the
\* prompt is made and self._llm_call_build enters NCloudLLM.generate.
BuildTreeMiss(d, f) ==
    /\ pc = "idle"
    /\ ~(~f /\ cache[d].exists)
    /\ doc' = d
    /\ force' = f
    /\ pre' = cache[d]
    /\ hit' = FALSE
    /\ calls' = 1
    /\ wrote' = FALSE
    /\ attempt' = 0
    /\ pc' = "llm"
    /\ UNCHANGED <<cache, trees, genEnd, resp, toc, outcome, result, prev>>

\* generate: "if response.status_code == 429: time.sleep(2 ** attempt); continue";
\* after the last attempt the loop ends and generate returns "".
AttemptRateLimited ==
    /\ pc = "llm"
    /\ IF attempt + 1 < max_retries
       THEN /\ attempt' = attempt + 1
            /\ UNCHANGED <<pc, genEnd, resp>>
       ELSE /\ attempt' = attempt + 1
            /\ genEnd' = "fallthrough"
            /\ resp' = NoText
            /\ pc' = "parse"
    /\ UNCHANGED <<cache, trees, doc, force, toc, outcome, result, hit, calls, wrote,
                   pre, prev>>

\* Faulty variant: the last failed attempt is swallowed and "" is returned.
AttemptErrorSwallowed ==
    /\ pc = "llm"
    /\ IF attempt < max_retries - 1
       THEN /\ attempt' = attempt + 1
            /\ UNCHANGED <<pc, genEnd, resp, outcome>>
       ELSE /\ genEnd' = "raise"
            /\ resp' = NoText
            /\ pc' = "parse"
            /\ UNCHANGED <<attempt, outcome>>
    /\ UNCHANGED <<cache, trees, doc, force, toc, result, hit, calls, wrote, pre, prev>>

\* generate: an attempt raises (connection error, timeout, raise_for_status on a
\* non-2xx status such as 401): "if attempt < max_retries - 1: time.sleep(1)
\* else: raise e".  build_tree calls generate outside its try block.
AttemptError ==
    /\ pc = "llm"
    /\ IF attempt < max_retries - 1
       THEN /\ attempt' = attempt + 1
            /\ UNCHANGED <<pc, genEnd, resp, outcome>>
       ELSE /\ genEnd' = "raise"
            /\ outcome' = "raised"
            /\ pc' = "done"
            /\ UNCHANGED <<attempt, resp>>
    /\ UNCHANGED <<cache, trees, doc, force, toc, result, hit, calls, wrote, pre, prev>>

\* generate: the attempt succeeds, "return full_content.strip()".
AttemptOk(r) ==
    /\ pc = "llm"
    /\ genEnd' = "return"
    /\ resp' = r
    /\ pc' = "parse"
    /\ UNCHANGED <<cache, trees, doc, force, attempt, toc, outcome, result, hit, calls,
                   wrote, pre, prev>>

\* build_tree: parse the response, then self._add_node_ids(toc).
BuildParse ==
    /\ pc = "parse"
    /\ LET p == ParseToc(resp)
       IN  IF p.raised
           THEN /\ outcome' = "raised"
                /\ pc' = "done"
                /\ UNCHANGED toc
           ELSE /\ toc' = AddNodeIds(p.val, "")
                /\ pc' = "write"
                /\ UNCHANGED outcome
    /\ UNCHANGED <<cache, trees, doc, force, attempt, genEnd, resp, result, hit, calls,
                   wrote, pre, prev>>

\* Faulty variant: the tree is saved before _add_node_ids has run on it.
BuildWriteUnaddressed ==
    /\ pc = "write"
    /\ cache' = [cache EXCEPT ![doc] = JsonDump(ParseToc(resp).val)]
    /\ wrote' = TRUE
    /\ pc' = "register"
    /\ UNCHANGED <<trees, doc, force, attempt, genEnd, resp, toc, outcome, result, hit,
                   calls, pre, prev>>

\* Faulty variant: the tree is registered but never saved.
BuildWriteSkipped ==
    /\ pc = "write"
    /\ wrote' = FALSE
    /\ pc' = "register"
    /\ UNCHANGED <<cache, trees, doc, force, attempt, genEnd, resp, toc, outcome, result,
                   hit, calls, pre, prev>>

\* build_tree: "with open(cache_path, 'w') as f: json.dump(toc, f, ...)"
BuildWrite ==
    /\ pc = "write"
    /\ cache' = [cache EXCEPT ![doc] = JsonDump(toc)]
    /\ wrote' = TRUE
    /\ pc' = "register"
    /\ UNCHANGED <<trees, doc, force, attempt, genEnd, resp, toc, outcome, result, hit,
                   calls, pre, prev>>

\* build_tree: "self.trees[pdf_path] = toc; return toc"
BuildRegister ==
    /\ pc = "register"
    /\ trees' = [trees EXCEPT ![doc] = InMem(toc)]
    /\ result' = toc
    /\ outcome' = "returned"
    /\ pc' = "done"
    /\ UNCHANGED <<cache, doc, force, attempt, genEnd, resp, toc, hit, calls, wrote,
                   pre, prev>>

\* The caller has the result (or the exception); the frame of build_tree is gone.
BuildReturn ==
    /\ pc = "done"
    /\ prev' = IF hit /\ outcome = "returned"
               THEN [valid |-> TRUE, doc |-> doc, val |-> result]
               ELSE NoPrev
    /\ pc' = "idle"
    /\ doc' = ""
    /\ force' = FALSE
    /\ attempt' = 0
    /\ genEnd' = "none"
    /\ resp' = NoText
    /\ toc' = JNull
    /\ outcome' = "none"
    /\ result' = JNull
    /\ hit' = FALSE
    /\ calls' = 0
    /\ wrote' = FALSE
    /\ pre' = NoFile
    /\ UNCHANGED <<cache, trees>>

\* The process ends and a new PageIndexRAG is constructed: "self.trees = {}";
\* the cache files stay.
Restart ==
    /\ pc = "idle"
    /\ trees' = [d \in Docs |-> NoFile]
    /\ UNCHANGED <<cache, pc, doc, force, attempt, genEnd, resp, toc, outcome, result,
                   hit, calls, wrote, pre, prev>>

(***************************************************************************)
(* PageIndexRAG.search: parsing the navigation answer, page windows.       *)
(***************************************************************************)
Min(a, b) == IF a < b THEN a ELSE b
Max(a, b) == IF a > b THEN a ELSE b

\* relevant_nodes = [{"node_id": "1", "title": "Document"}]
FallbackAnswer == JList(<<JDict("Document", NoPage, "1")>>)

\* try: relevant_nodes = extract_json(response)
\*      if not relevant_nodes: relevant_nodes = json.loads(response)
\* except: relevant_nodes = [{"node_id": "1", "title": "Document"}]
ParseAnswer(r) ==
    LET e == ExtractJson(r)
    IN  IF Truthy(e)
        THEN e
        ELSE LET j == JsonLoads(r)
             IN  IF j.raised THEN FallbackAnswer ELSE j.val

\* range(a, b + 1) as a sequence
Range(a, b) == [j \in 1..(b - a + 1) |-> a + j - 1]

\* Faulty variant: start_idx is not clamped to 0.
GetTextFromPagesNoClamp(n, blank, start_idx, end_idx) ==
    LET end == Min(n - 1, end_idx)
        read == Range(start_idx, end)
    IN  [read |-> read,
         pages |-> SelectSeq(read, LAMBDA i : i \notin blank)]

\* _get_text_from_pages(page_list, start_idx, end_idx): the indices of
\* page_list it reads, and of these the ones whose text is not blank and
\* goes into the result under a "--- Page i+1 ---" header.  No index read
\* means the result is "".
GetTextFromPages(n, blank, start_idx, end_idx) ==
    LET start == Max(0, start_idx)
        end == Min(n - 1, end_idx)
        read == Range(start, end)
    IN  [read |-> read,
         pages |-> SelectSeq(read, LAMBDA i : i \notin blank)]

SearchRaised == [raised |-> TRUE, results |-> <<>>]

\* "text": text[:2000]
TextCap == 2000
\* len("--- Page 1 ---\n"), for page numbers of one digit
HeaderChars == 15
\* len("\n\n")
SepChars == 2

\* len(page_list[i][0]) of a page that is not blank
PageChars(i) == IF i % 2 = 0 THEN 700 ELSE 1500

\* len("\n\n".join(texts)) for the pages that went into texts
RECURSIVE JoinChars(_)
JoinChars(pages) ==
    IF pages = <<>>
    THEN 0
    ELSE HeaderChars + PageChars(Head(pages))
         + (IF Tail(pages) = <<>> THEN 0 ELSE SepChars + JoinChars(Tail(pages)))

\* os.path.basename(pdf_path)
Basename(path) == IF path \in {"x/a.pdf", "y/a.pdf"} THEN "a.pdf" ELSE path

\* Faulty variant: the text goes into the result at its full length.
MakeResultUncut(node_info, node, path, n, blank) ==
    LET page == IF node.page.k = "none" THEN 1 ELSE node.page.n
        start_page == page - 1
        end_page == Min(start_page + 2, n - 1)
        text == GetTextFromPages(n, blank, start_page, end_page)
    IN  [node_id |-> node_info.id, title |-> node.title, page |-> page,
         path |-> path, read |-> text.read, pages |-> text.pages,
         full |-> JoinChars(text.pages), chars |-> JoinChars(text.pages),
         source |-> Basename(doc)]

\* The retrieval result of one resolved node (lines 291-310): read and pages
\* are the page indices of its window and of its text, full and chars the
\* length of the window's text and of the text kept by text[:2000].
MakeResult(node_info, node, path, n, blank) ==
    LET page == IF node.page.k = "none" THEN 1 ELSE node.page.n
        start_page == page - 1
        end_page == Min(start_page + 2, n - 1)
        text == GetTextFromPages(n, blank, start_page, end_page)
    IN  [node_id |-> node_info.id, title |-> node.title, page |-> page,
         path |-> path, read |-> text.read, pages |-> text.pages,
         full |-> JoinChars(text.pages),
         chars |-> Min(JoinChars(text.pages), TextCap),
         source |-> Basename(doc)]

\* Faulty variant: an entry that does not resolve ends the loop.
RECURSIVE CollectLoopStopAtUnresolved(_, _, _, _, _, _)
CollectLoopStopAtUnresolved(tree, entries, i, acc, n, blank) ==
    IF i > Len(entries)
    THEN [raised |-> FALSE, results |-> acc]
    ELSE LET node_info == entries[i]
         IN  IF node_info.t # "dict"
             THEN SearchRaised
             ELSE LET r == FindNode(tree, IF node_info.id = "" THEN "1" ELSE node_info.id)
                  IN  IF ~r.found
                      THEN [raised |-> FALSE, results |-> acc]
                      ELSE LET node == NodeAt(tree, r.path)
                           IN  IF node.page.k \in {"str", "null"}
                               THEN SearchRaised
                               ELSE CollectLoopStopAtUnresolved(tree, entries, i + 1,
                                        Append(acc, MakeResult(node_info, node, r.path, n, blank)),
                                        n, blank)

\* "for node_info in relevant_nodes[:top_k]: node = self._find_node(tree,
\* node_info.get("node_id", "1")); if node: ... results.append({...})".
\* node_info.get raises on an entry that is not an object; "page" - 1 raises
\* on a page that is a string or null.
RECURSIVE CollectLoop(_, _, _, _, _, _)
CollectLoop(tree, entries, i, acc, n, blank) ==
    IF i > Len(entries)
    THEN [raised |-> FALSE, results |-> acc]
    ELSE LET node_info == entries[i]
         IN  IF node_info.t # "dict"
             THEN SearchRaised
             ELSE LET r == FindNode(tree, IF node_info.id = "" THEN "1" ELSE node_info.id)
                  IN  IF ~r.found
                      THEN CollectLoop(tree, entries, i + 1, acc, n, blank)
                      ELSE LET node == NodeAt(tree, r.path)
                           IN  IF node.page.k \in {"str", "null"}
                               THEN SearchRaised
                               ELSE CollectLoop(tree, entries, i + 1,
                                        Append(acc, MakeResult(node_info, node, r.path, n, blank)),
                                        n, blank)

\* Lines 286-312: relevant_nodes[:top_k] raises unless relevant_nodes is a list.
SearchCollect(tree, relevant, top_k, n, blank) ==
    IF relevant.t # "list"
    THEN SearchRaised
    ELSE CollectLoop(tree, SubSeq(relevant.kids, 1, Min(top_k, Len(relevant.kids))),
                     1, <<>>, n, blank)

\* What the model may put in its answer to the navigation prompt.
Entry(id) == JDict("T", NoPage, id)
AnswerOne == JList(<<Entry("1")>>)
AnswerMixed == JList(<<Entry("1.1"), Entry("9"), Entry("1"), Entry("2")>>)
AnswerRepeat == JList(<<Entry("1"), Entry("1"), Entry("1")>>)
AnswerNoId == JList(<<Entry("")>>)
AnswerObject == Entry("1")
AnswerStrings == JList(<<JScalar(TRUE)>>)
AnswerEmpty == JList(<<>>)
AnswerNumber == JScalar(TRUE)

NavAnswers ==
    {AnswerOne, AnswerMixed, AnswerRepeat, AnswerNoId, AnswerObject, AnswerStrings,
     AnswerEmpty, AnswerNumber}

NavResponses ==
    {[form |-> f, val |-> v] : f \in {"raw", "wrapped"}, v \in NavAnswers}
    \cup {[form |-> "garbage", val |-> JNull], NoText}

\* The pages of the documents of Spec whose text is blank (0-based).
BlankPages(d) == IF d = "a.pdf" THEN {} ELSE {1}

InitSearchIdle ==
    /\ sStage = "none"
    /\ sTopK = 0
    /\ sTree = JNull
    /\ sN = 0
    /\ sBlank = {}
    /\ sRel = JNull
    /\ sOutcome = "none"
    /\ sResults = <<>>

(***************************************************************************)
(* PageIndexRAG.search, step by step.                                      *)
(***************************************************************************)
\* search(pdf_path, query, top_k) with the tree in self.trees: the outline is
\* rendered and self._llm_call_search enters NCloudLLM.generate.
SearchStart(d, k) ==
    /\ pc = "idle"
    /\ trees[d].exists
    /\ doc' = d
    /\ pre' = cache[d]
    /\ attempt' = 0
    /\ pc' = "llm"
    /\ sStage' = "nav"
    /\ sTopK' = k
    /\ sTree' = trees[d].val
    /\ sN' = NumPages(d)
    /\ sBlank' = BlankPages(d)
    /\ UNCHANGED <<cache, trees, force, genEnd, resp, toc, outcome, result, hit, calls,
                   wrote, prev, sRel, sOutcome, sResults>>

\* search with no tree in self.trees: "if pdf_path not in self.trees:
\* self.build_tree(pdf_path)".
SearchEnsureTree(d, k) ==
    /\ ~trees[d].exists
    /\ \/ BuildTreeCached(d)
       \/ BuildTreeMiss(d, FALSE)
    /\ sStage' = "ensure"
    /\ sTopK' = k
    /\ UNCHANGED <<sTree, sN, sBlank, sRel, sOutcome, sResults>>

\* Faulty variant: search rebuilds the tree it was asked to navigate.
SearchContinueRebuild ==
    /\ pc = "done"
    /\ sStage = "ensure"
    /\ outcome = "returned"
    /\ prev' = NoPrev
    /\ cache' = [cache EXCEPT ![doc] = JsonDump(AddNodeIds(FallbackToc, ""))]
    /\ trees' = [trees EXCEPT ![doc] = InMem(AddNodeIds(FallbackToc, ""))]
    /\ pre' = cache[doc]
    /\ force' = FALSE
    /\ attempt' = 0
    /\ genEnd' = "none"
    /\ resp' = NoText
    /\ toc' = JNull
    /\ outcome' = "none"
    /\ result' = JNull
    /\ hit' = FALSE
    /\ calls' = 0
    /\ wrote' = FALSE
    /\ pc' = "llm"
    /\ sStage' = "nav"
    /\ sTree' = AddNodeIds(FallbackToc, "")
    /\ sN' = NumPages(doc)
    /\ sBlank' = BlankPages(doc)
    /\ UNCHANGED <<doc, sTopK, sRel, sOutcome, sResults>>

\* The build_tree inside search has returned: "tree = self.trees[pdf_path]",
\* then the navigation call.
SearchContinue ==
    /\ pc = "done"
    /\ sStage = "ensure"
    /\ outcome = "returned"
    /\ prev' = IF hit THEN [valid |-> TRUE, doc |-> doc, val |-> result] ELSE NoPrev
    /\ pre' = cache[doc]
    /\ force' = FALSE
    /\ attempt' = 0
    /\ genEnd' = "none"
    /\ resp' = NoText
    /\ toc' = JNull
    /\ outcome' = "none"
    /\ result' = JNull
    /\ hit' = FALSE
    /\ calls' = 0
    /\ wrote' = FALSE
    /\ pc' = "llm"
    /\ sStage' = "nav"
    /\ sTree' = trees[doc].val
    /\ sN' = NumPages(doc)
    /\ sBlank' = BlankPages(doc)
    /\ UNCHANGED <<cache, trees, doc, sTopK, sRel, sOutcome, sResults>>

\* An exception of build_tree or of the navigation call leaves search: neither
\* call is inside a try block.
SearchAbort ==
    /\ pc = "done"
    /\ sStage \in {"ensure", "nav"}
    /\ outcome = "raised"
    /\ sOutcome' = "raised"
    /\ pc' = "sdone"
    /\ UNCHANGED <<cache, trees, doc, force, attempt, genEnd, resp, toc, outcome, result,
                   hit, calls, wrote, pre, prev, sStage, sTopK, sTree, sN, sBlank, sRel,
                   sResults>>

\* search: the navigation answer is parsed (lines 277-282).
SearchParse ==
    /\ pc = "parse"
    /\ sStage = "nav"
    /\ sRel' = ParseAnswer(resp)
    /\ pc' = "extract"
    /\ UNCHANGED <<cache, trees, doc, force, attempt, genEnd, resp, toc, outcome, result,
                   hit, calls, wrote, pre, prev, sStage, sTopK, sTree, sN, sBlank,
                   sOutcome, sResults>>

\* search: the loop over relevant_nodes[:top_k] and "return results".
SearchExtract ==
    /\ pc = "extract"
    /\ LET c == SearchCollect(sTree, sRel, sTopK, sN, sBlank)
       IN  /\ sOutcome' = IF c.raised THEN "raised" ELSE "returned"
           /\ sResults' = c.results
    /\ pc' = "sdone"
    /\ UNCHANGED <<cache, trees, doc, force, attempt, genEnd, resp, toc, outcome, result,
                   hit, calls, wrote, pre, prev, sStage, sTopK, sTree, sN, sBlank, sRel>>

\* The caller has the results (or the exception); the frame of search is gone.
SearchReturn ==
    /\ pc = "sdone"
    /\ pc' = "idle"
    /\ doc' = ""
    /\ force' = FALSE
    /\ attempt' = 0
    /\ genEnd' = "none"
    /\ resp' = NoText
    /\ toc' = JNull
    /\ outcome' = "none"
    /\ result' = JNull
    /\ hit' = FALSE
    /\ calls' = 0
    /\ wrote' = FALSE
    /\ pre' = NoFile
    /\ sStage' = "none"
    /\ sTopK' = 0
    /\ sTree' = JNull
    /\ sN' = 0
    /\ sBlank' = {}
    /\ sRel' = JNull
    /\ sOutcome' = "none"
    /\ sResults' = <<>>
    /\ UNCHANGED <<cache, trees, prev>>

(***************************************************************************)
(* PageIndexRouter.route.  A file name, a query token and an item of the   *)
(* model's answer are sequences of symbols, so that Python's "a in b" on   *)
(* strings is: a is a contiguous part of b.                                *)
(***************************************************************************)
NameA == <<"A_", "transparency", ".pdf">>
NameB == <<"B_", "safety", ".pdf">>
NameC == <<"law", ".pdf">>
Names == {NameA, NameB, NameC}

\* a in b, for strings
IsSub(a, b) == \E i \in 0..(Len(b) - Len(a)) : SubSeq(b, i + 1, i + Len(a)) = a

\* x in seq, for lists
InList(x, seq) == \E i \in 1..Len(seq) : seq[i] = x

\* seq[:k]
Take(seq, k) == SubSeq(seq, 1, Min(k, Len(seq)))

\* The orders in which list(set(...)) may enumerate a set.
Perms(S) ==
    {f \in [1..Cardinality(S) -> S] : \A i, j \in 1..Cardinality(S) : f[i] = f[j] => i = j}

\* The candidate lists: file names of a directory, in any order.
DocLists == UNION {Perms(S) : S \in SUBSET Names}

Queries == {<<<<"transparency">>, <<"guideline">>>>, <<<<"safety">>>>}

\* An item of selected_docs: a string, or a JSON value that is not a string.
Str(v) == [str |-> TRUE, v |-> v]
NonStr == [str |-> FALSE, v |-> <<>>]

ItemMenu ==
    {Str(NameA), Str(<<"safety">>), Str(<<"see", "A_", "transparency", ".pdf", "!">>),
     Str(<<"zzz">>), Str(<<>>), NonStr}

ItemLists(lo) == UNION {[1..n -> ItemMenu] : n \in lo..MaxItems}

\* The text generate returned, after the code fences are removed and the
\* lines joined (lines 68-70): "array", a "[" ... "]" span that is a JSON array
\* of these items; "badspan", brackets whose span is not JSON; "plain", no
\* pair of brackets, the text being these parts between commas.
RouteResponses ==
    {[form |-> "array", items |-> l] : l \in ItemLists(0)}
    \cup {[form |-> "badspan", items |-> <<>>]}
    \cup {[form |-> "plain", items |-> l] :
            l \in {m \in ItemLists(1) : \A i \in 1..Len(m) : m[i].str}}

\* Lines 72-84: selected_docs, or the exception of json.loads.  The text ""
\* (form "empty") has no comma and gives [""].
ParseRoute(r) ==
    CASE r.form = "badspan" -> [raised |-> TRUE, sel |-> <<>>]
      [] r.form = "empty" -> [raised |-> FALSE, sel |-> <<Str(<<>>)>>]
      [] OTHER -> [raised |-> FALSE, sel |-> r.items]

\* Lines 96-99: the first original_doc with "doc in original_doc or
\* original_doc in doc"; 0 when there is none.
FirstMatch(name, documents) ==
    LET hits == {j \in 1..Len(documents) :
                    IsSub(name, documents[j]) \/ IsSub(documents[j], name)}
    IN  IF hits = {} THEN 0 ELSE CHOOSE j \in hits : \A m \in hits : j <= m

\* Faulty variant: a substring match keeps the model's spelling of the name.
RECURSIVE ValidateLoopKeepsAnswer(_, _, _, _)
ValidateLoopKeepsAnswer(sel, i, documents, acc) ==
    IF i > Len(sel)
    THEN [raised |-> FALSE, valid |-> acc]
    ELSE LET it == sel[i]
         IN  IF ~it.str
             THEN IF documents = <<>>
                  THEN ValidateLoopKeepsAnswer(sel, i + 1, documents, acc)
                  ELSE [raised |-> TRUE, valid |-> <<>>]
             ELSE IF InList(it.v, documents)
                  THEN ValidateLoopKeepsAnswer(sel, i + 1, documents, Append(acc, it.v))
                  ELSE IF FirstMatch(it.v, documents) = 0
                       THEN ValidateLoopKeepsAnswer(sel, i + 1, documents, acc)
                       ELSE ValidateLoopKeepsAnswer(sel, i + 1, documents, Append(acc, it.v))

\* Lines 87-99: valid_docs.  An item that is not a string is in no list of
\* names, and "doc in original_doc" raises TypeError for it on the first
\* original_doc.
RECURSIVE ValidateLoop(_, _, _, _)
ValidateLoop(sel, i, documents, acc) ==
    IF i > Len(sel)
    THEN [raised |-> FALSE, valid |-> acc]
    ELSE LET it == sel[i]
         IN  IF ~it.str
             THEN IF documents = <<>>
                  THEN ValidateLoop(sel, i + 1, documents, acc)
                  ELSE [raised |-> TRUE, valid |-> <<>>]
             ELSE IF InList(it.v, documents)
                  THEN ValidateLoop(sel, i + 1, documents, Append(acc, it.v))
                  ELSE IF FirstMatch(it.v, documents) = 0
                       THEN ValidateLoop(sel, i + 1, documents, acc)
                       ELSE ValidateLoop(sel, i + 1, documents,
                                         Append(acc, documents[FirstMatch(it.v, documents)]))

\* Lines 108-115, which follow the raise of line 105: the candidates by the
\* number of query tokens each contains, descending, ties in input order
\* (list.sort is stable), cut to top_k.
KeywordScore(keywords, name) ==
    Cardinality({i \in 1..Len(keywords) : IsSub(keywords[i], name)})

KeywordRank(query, documents, top_k) ==
    LET n == Len(documents)
        sc(i) == KeywordScore(query, documents[i])
        order == CHOOSE f \in Perms(1..n) :
                    \A i, j \in 1..n :
                        i < j => \/ sc(f[i]) > sc(f[j])
                                 \/ sc(f[i]) = sc(f[j]) /\ f[i] < f[j]
    IN  Take([i \in 1..n |-> documents[order[i]]], top_k)

InitRouteIdle ==
    /\ rQuery = <<>>
    /\ rDocs = <<>>
    /\ rTopK = 0
    /\ rSel = <<>>
    /\ rOut = <<>>
    /\ rVia = "none"

\* route(query, documents, top_k) up to "response = self.llm.generate(...)".
RouteStart(q, documents, k) ==
    /\ pc = "idle"
    /\ rQuery' = q
    /\ rDocs' = documents
    /\ rTopK' = k
    /\ attempt' = 0
    /\ pc' = "llm"
    /\ UNCHANGED <<cache, trees, doc, force, genEnd, resp, toc, outcome, result, hit,
                   calls, wrote, pre, prev, rSel, rOut, rVia>>

\* generate raised: "except Exception as e: return documents[:top_k]".
RouteExcept ==
    /\ pc = "done"
    /\ outcome = "raised"
    /\ rOut' = Take(rDocs, rTopK)
    /\ rVia' = "except"
    /\ pc' = "rdone"
    /\ UNCHANGED <<cache, trees, doc, force, attempt, genEnd, resp, toc, outcome, result,
                   hit, calls, wrote, pre, prev, rQuery, rDocs, rTopK, rSel>>

\* Lines 67-84: the response is cut to its bracket span and parsed, or split
\* at its commas; an exception of json.loads goes to the except branch.
RouteParse ==
    /\ pc = "parse"
    /\ LET p == ParseRoute(resp)
       IN  IF p.raised
           THEN /\ rOut' = Take(rDocs, rTopK)
                /\ rVia' = "except"
                /\ pc' = "rdone"
                /\ UNCHANGED rSel
           ELSE /\ rSel' = p.sel
                /\ pc' = "validate"
                /\ UNCHANGED <<rOut, rVia>>
    /\ UNCHANGED <<cache, trees, doc, force, attempt, genEnd, resp, toc, outcome, result,
                   hit, calls, wrote, pre, prev, rQuery, rDocs, rTopK>>

\* Lines 86-122: validation, list(set(valid_docs)) in one of its orders,
\* "raise ValueError" when nothing is left, "return valid_docs[:top_k]"; every
\* exception ends in "return documents[:top_k]".
RouteValidate ==
    /\ pc = "validate"
    /\ LET v == ValidateLoop(rSel, 1, rDocs, <<>>)
           valid == {v.valid[i] : i \in 1..Len(v.valid)}
       IN  IF v.raised \/ valid = {}
           THEN /\ rOut' = Take(rDocs, rTopK)
                /\ rVia' = "except"
           ELSE /\ \E order \in Perms(valid) : rOut' = Take(order, rTopK)
                /\ rVia' = "valid"
    /\ pc' = "rdone"
    /\ UNCHANGED <<cache, trees, doc, force, attempt, genEnd, resp, toc, outcome, result,
                   hit, calls, wrote, pre, prev, rQuery, rDocs, rTopK, rSel>>

\* The caller has the list; the frame of route is gone.
RouteReturn ==
    /\ pc = "rdone"
    /\ pc' = "idle"
    /\ attempt' = 0
    /\ genEnd' = "none"
    /\ resp' = NoText
    /\ outcome' = "none"
    /\ rQuery' = <<>>
    /\ rDocs' = <<>>
    /\ rTopK' = 0
    /\ rSel' = <<>>
    /\ rOut' = <<>>
    /\ rVia' = "none"
    /\ UNCHANGED <<cache, trees, doc, force, toc, result, hit, calls, wrote, pre, prev>>

(***************************************************************************)
(* State of the parts that are not running: the sleeps of generate, the    *)
(* query pipelines, concurrent builders.                                   *)
(***************************************************************************)
InitGenIdle == gLog = <<>>

InitPipeIdle ==
    /\ pKind = "none"
    /\ pStage = "idle"
    /\ pSel = <<>>
    /\ pIdx = 0
    /\ pHave = 0
    /\ pLog = <<>>

\* Two documents of the same file name in different directories.
RacePaths == {"x/a.pdf", "y/a.pdf"}

\* Path(pdf_path).stem[:30]
Stem(path) == "a"

\* hashlib.md5(pdf_path.encode()).hexdigest()[:12]
Md5(path) == IF path = "x/a.pdf" THEN "3f1c" ELSE "b07e"

\* Faulty variant: the cache file is named after the stem alone.
GetCachePathStemOnly(path) == Stem(path) \o "_tree.json"

\* _get_cache_path: f"{pdf_name}_{pdf_hash}_tree.json" in cache_dir
GetCachePath(path) == Stem(path) \o "_" \o Md5(path) \o "_tree.json"

CacheFiles ==
    {GetCachePath(d) : d \in RacePaths} \cup {GetCachePathStemOnly(d) : d \in RacePaths}

Builders == {"b1", "b2"}

NoData == [exists |-> FALSE, data |-> <<>>]
NoResult == [kind |-> "none", val |-> JNull]

InitRaceIdle ==
    /\ file = [c \in CacheFiles |-> NoData]
    /\ bPc = [b \in Builders |-> "idle"]
    /\ bDoc = [b \in Builders |-> ""]
    /\ bToc = [b \in Builders |-> JNull]
    /\ bPos = [b \in Builders |-> 0]
    /\ bRes = [b \in Builders |-> NoResult]
    /\ bMem = [d \in RacePaths |-> NoFile]

InitOthersIdle == InitGenIdle /\ InitPipeIdle /\ InitRaceIdle

Init == InitBuildIdle /\ InitAddrIdle /\ InitSearchIdle /\ InitRouteIdle /\ InitOthersIdle

Next ==
    \/ \E d \in Docs : BuildTreeCached(d) /\ UNCHANGED <<addrVars, searchVars, routeVars, sideVars>>
    \/ \E d \in Docs, f \in BOOLEAN : BuildTreeMiss(d, f) /\ UNCHANGED <<addrVars, searchVars, routeVars, sideVars>>
    \/ AttemptRateLimited /\ UNCHANGED <<addrVars, searchVars, routeVars, sideVars>>
    \/ AttemptError /\ UNCHANGED <<addrVars, searchVars, routeVars, sideVars>>
    \/ \E r \in (IF sStage = "nav" THEN NavResponses ELSE Responses) :
            AttemptOk(r) /\ UNCHANGED <<addrVars, searchVars, routeVars, sideVars>>
    \/ sStage # "nav" /\ BuildParse /\ UNCHANGED <<addrVars, searchVars, routeVars, sideVars>>
    \/ BuildWrite /\ UNCHANGED <<addrVars, searchVars, routeVars, sideVars>>
    \/ BuildRegister /\ UNCHANGED <<addrVars, searchVars, routeVars, sideVars>>
    \/ sStage = "none" /\ BuildReturn /\ UNCHANGED <<addrVars, searchVars, routeVars, sideVars>>
    \/ Restart /\ UNCHANGED <<addrVars, searchVars, routeVars, sideVars>>
    \/ \E d \in Docs, k \in 1..MaxTopK : SearchStart(d, k) /\ UNCHANGED <<addrVars, routeVars, sideVars>>
    \/ \E d \in Docs, k \in 1..MaxTopK : SearchEnsureTree(d, k) /\ UNCHANGED <<addrVars, routeVars, sideVars>>
    \/ SearchContinue /\ UNCHANGED <<addrVars, routeVars, sideVars>>
    \/ SearchAbort /\ UNCHANGED <<addrVars, routeVars, sideVars>>
    \/ SearchParse /\ UNCHANGED <<addrVars, routeVars, sideVars>>
    \/ SearchExtract /\ UNCHANGED <<addrVars, routeVars, sideVars>>
    \/ SearchReturn /\ UNCHANGED <<addrVars, routeVars, sideVars>>

Spec == Init /\ [][Next]_vars

InitAddr ==
    /\ InitBuildIdle
    /\ InitSearchIdle
    /\ InitRouteIdle
    /\ InitOthersIdle
    /\ aT \in InputTrees
    /\ aPrev = aT
    /\ aPass = 0
    /\ aTarget = <<>>
    /\ aFound = NotFound

NextAddr ==
    \/ AssignAddresses /\ UNCHANGED <<buildVars, searchVars, routeVars, sideVars>>
    \/ \E p \in NodePaths(aT, <<>>) : FindByAddress(p) /\ UNCHANGED <<buildVars, searchVars, routeVars, sideVars>>

SpecAddr == InitAddr /\ [][NextAddr]_vars

(***************************************************************************)
(* SpecSearch: search from the return of its navigation call on, for every *)
(* tree, page list, top_k and answer of a bounded set.                     *)
(***************************************************************************)
PageRange == (0 - 1)..(MaxPages + 2)

PagedTree(p) ==
    JList(<<JDictCh("P", IntPage(p), "", JList(<<JDict("Q", IntPage(p + 1), "")>>)),
            JDict("R", IntPage(p + 2), "")>>)

SearchTrees ==
    {AddNodeIds(v, "") : v \in TocValues \cup {FallbackToc}}
    \cup {AddNodeIds(PagedTree(p), "") : p \in PageRange}

InitSearch ==
    /\ cache = [d \in Docs |-> NoFile]
    /\ trees = [d \in Docs |-> NoFile]
    /\ pc = "parse"
    /\ doc \in {"x/a.pdf", "b.pdf"}
    /\ force = FALSE
    /\ attempt = 0
    /\ genEnd = "return"
    /\ resp \in NavResponses
    /\ toc = JNull
    /\ outcome = "none"
    /\ result = JNull
    /\ hit = FALSE
    /\ calls = 0
    /\ wrote = FALSE
    /\ pre = NoFile
    /\ prev = NoPrev
    /\ InitAddrIdle
    /\ sStage = "nav"
    /\ sTopK \in 1..MaxTopK
    /\ sTree \in SearchTrees
    /\ sN \in 0..MaxPages
    /\ sBlank \in SUBSET (0..(sN - 1))
    /\ sRel = JNull
    /\ sOutcome = "none"
    /\ sResults = <<>>
    /\ InitRouteIdle
    /\ InitOthersIdle

NextSearch ==
    \/ SearchParse /\ UNCHANGED <<addrVars, routeVars, sideVars>>
    \/ SearchExtract /\ UNCHANGED <<addrVars, routeVars, sideVars>>

SpecSearch == InitSearch /\ [][NextSearch]_vars

(***************************************************************************)
(* SpecRoute: calls of route, each with its call of generate.              *)
(***************************************************************************)
NextRoute ==
    \/ \E q \in Queries, documents \in DocLists, k \in 1..MaxTopK :
            RouteStart(q, documents, k) /\ UNCHANGED <<addrVars, searchVars, sideVars>>
    \/ AttemptRateLimited /\ UNCHANGED <<addrVars, searchVars, routeVars, sideVars>>
    \/ AttemptError /\ UNCHANGED <<addrVars, searchVars, routeVars, sideVars>>
    \/ \E r \in RouteResponses : AttemptOk(r) /\ UNCHANGED <<addrVars, searchVars, routeVars, sideVars>>
    \/ RouteExcept /\ UNCHANGED <<addrVars, searchVars, sideVars>>
    \/ RouteParse /\ UNCHANGED <<addrVars, searchVars, sideVars>>
    \/ RouteValidate /\ UNCHANGED <<addrVars, searchVars, sideVars>>
    \/ RouteReturn /\ UNCHANGED <<addrVars, searchVars, sideVars>>

SpecRoute == Init /\ [][NextRoute]_vars

(***************************************************************************)
(* SpecAddrAny: the addressing functions on trees of any shape, among them *)
(* trees in which the model put an object, not an array, under "children". *)
(***************************************************************************)
\* Every dict _find_node can return: the section nodes and the dicts stored
\* directly under a "children" key (path step 0).
RECURSIVE AllNodePaths(_, _)
AllNodePaths(v, path) ==
    CASE v.t = "list" ->
            UNION {AllNodePaths(v.kids[i], path \o <<i>>) : i \in 1..Len(v.kids)}
      [] v.t = "dict" ->
            {path} \cup (IF v.ch
                         THEN AllNodePaths(v.kids[1], ChildStep(v.kids[1], path))
                         ELSE {})
      [] OTHER -> {}

ObjectChildTrees ==
    {JList(<<JDictCh("s", IntPage(1), id0, JDict("c", IntPage(2), id1))>> \o rest) :
        id0 \in PreIds, id1 \in PreIds \cup {"2"}, rest \in Forest[0] \cup Forest[1]}

AnyTrees == InputTrees \cup ObjectChildTrees

InitAddrAny ==
    /\ InitBuildIdle
    /\ InitSearchIdle
    /\ InitRouteIdle
    /\ InitOthersIdle
    /\ aT \in AnyTrees
    /\ aPrev = aT
    /\ aPass = 0
    /\ aTarget = <<>>
    /\ aFound = NotFound

NextAddrAny ==
    \/ AssignAddresses /\ UNCHANGED <<buildVars, searchVars, routeVars, sideVars>>
    \/ \E p \in AllNodePaths(aT, <<>>) :
            FindByAddress(p) /\ UNCHANGED <<buildVars, searchVars, routeVars, sideVars>>

SpecAddrAny == InitAddrAny /\ [][NextAddrAny]_vars

(***************************************************************************)
(* SpecGen: calls of NCloudLLM.generate with the sleeps of its retry loop. *)
(* gLog has one entry per HTTP attempt: its outcome, the loop index n and  *)
(* the seconds slept after it (0: no sleep).                               *)
(***************************************************************************)
Attempted(kind, wait) == Append(gLog, [kind |-> kind, n |-> attempt, wait |-> wait])

\* generate is entered: "for attempt in range(max_retries)".
GenStart ==
    /\ pc = "idle"
    /\ attempt' = 0
    /\ pc' = "llm"
    /\ gLog' = <<>>
    /\ UNCHANGED <<cache, trees, doc, force, genEnd, resp, toc, outcome, result, hit,
                   calls, wrote, pre, prev>>

\* Faulty variant: the same pause after every rate-limited attempt.
GenRateLimitedFlat ==
    /\ AttemptRateLimited
    /\ gLog' = Attempted("429", 1)

\* "wait_time = 2 ** attempt; time.sleep(wait_time); continue"
GenRateLimited ==
    /\ AttemptRateLimited
    /\ gLog' = Attempted("429", 2 ^ attempt)

\* "if attempt < max_retries - 1: time.sleep(1) else: raise e"
GenError ==
    /\ AttemptError
    /\ gLog' = Attempted("err", IF attempt < max_retries - 1 THEN 1 ELSE 0)

\* "return full_content.strip()"
GenOk(r) ==
    /\ AttemptOk(r)
    /\ gLog' = Attempted("ok", 0)

\* The caller has the text (or the exception).
GenReturn ==
    /\ pc \in {"parse", "done"}
    /\ pc' = "idle"
    /\ attempt' = 0
    /\ genEnd' = "none"
    /\ resp' = NoText
    /\ outcome' = "none"
    /\ gLog' = <<>>
    /\ UNCHANGED <<cache, trees, doc, force, toc, result, hit, calls, wrote, pre, prev>>

NextGen ==
    \/ GenStart /\ UNCHANGED <<addrVars, searchVars, routeVars, pipeVars, raceVars>>
    \/ GenRateLimited /\ UNCHANGED <<addrVars, searchVars, routeVars, pipeVars, raceVars>>
    \/ GenError /\ UNCHANGED <<addrVars, searchVars, routeVars, pipeVars, raceVars>>
    \/ \E r \in Responses \cup NavResponses :
            GenOk(r) /\ UNCHANGED <<addrVars, searchVars, routeVars, pipeVars, raceVars>>
    \/ GenReturn /\ UNCHANGED <<addrVars, searchVars, routeVars, pipeVars, raceVars>>

SpecGen == Init /\ [][NextGen]_vars

(***************************************************************************)
(* SpecPipe: one query through the PageIndex branch of Evaluator.evaluate  *)
(* ("eval") or of compare_answers ("ui").  pLog lists the calls made to    *)
(* the router, the tree builder, the navigator and the answer model, each  *)
(* with the document it was for and whether it returned.                   *)
(***************************************************************************)
\* route(question, ..., top_k=2) and search(pdf_path, question, top_k=2)
PipeTopK == 2

PipeDocs == {"A.pdf", "B.pdf", "C.pdf"}

\* What route may return: at most top_k of the candidates, none twice.
Selections == UNION {Perms(S) : S \in {T \in SUBSET PipeDocs : Cardinality(T) <= PipeTopK}}

Call(op, d, ok) == [op |-> op, doc |-> d, ok |-> ok]

\* "selected_docs = self.pageindex_router.route(question, self.all_docs, top_k=2)"
PipeRoute(kind, sel) ==
    /\ pStage = "idle"
    /\ pKind' = kind
    /\ pSel' = sel
    /\ pIdx' = 1
    /\ pHave' = 0
    /\ pLog' = <<Call("route", "", TRUE)>>
    /\ pStage' = "loop"

\* compare_answers with no cached document: "if available_docs:" is false,
\* selected_docs stays [].
PipeSkipRoute ==
    /\ pStage = "idle"
    /\ pKind' = "ui"
    /\ pSel' = <<>>
    /\ pIdx' = 1
    /\ pHave' = 0
    /\ pLog' = <<>>
    /\ pStage' = "loop"

\* "for doc in selected_docs: ... build_tree(pdf_path)" returns.
PipeBuildOk ==
    /\ pStage = "loop"
    /\ pIdx <= Len(pSel)
    /\ pLog' = Append(pLog, Call("build_tree", pSel[pIdx], TRUE))
    /\ pStage' = "built"
    /\ UNCHANGED <<pKind, pSel, pIdx, pHave>>

\* build_tree raises: the evaluator's try block is left for its except
\* branch; compare_answers has "except: pass" inside the loop and goes on
\* with the next document.
PipeBuildFail ==
    /\ pStage = "loop"
    /\ pIdx <= Len(pSel)
    /\ pLog' = Append(pLog, Call("build_tree", pSel[pIdx], FALSE))
    /\ IF pKind = "eval"
       THEN pStage' = "end" /\ UNCHANGED pIdx
       ELSE pStage' = "loop" /\ pIdx' = pIdx + 1
    /\ UNCHANGED <<pKind, pSel, pHave>>

\* Faulty variant: the loop searches a document without building its tree.
PipeSearchOkUnbuilt(n) ==
    /\ pStage = "loop"
    /\ pIdx <= Len(pSel)
    /\ pLog' = Append(pLog, Call("search", pSel[pIdx], TRUE))
    /\ pHave' = pHave + n
    /\ pIdx' = pIdx + 1
    /\ pStage' = "loop"
    /\ UNCHANGED <<pKind, pSel>>

\* "res = self.pageindex_rag.search(pdf_path, question, top_k=2)" returns n
\* results; "all_p_results.extend(res)".
PipeSearchOk(n) ==
    /\ pStage = "built"
    /\ pLog' = Append(pLog, Call("search", pSel[pIdx], TRUE))
    /\ pHave' = pHave + n
    /\ pIdx' = pIdx + 1
    /\ pStage' = "loop"
    /\ UNCHANGED <<pKind, pSel>>

\* search raises.
PipeSearchFail ==
    /\ pStage = "built"
    /\ pLog' = Append(pLog, Call("search", pSel[pIdx], FALSE))
    /\ IF pKind = "eval"
       THEN pStage' = "end" /\ UNCHANGED pIdx
       ELSE pStage' = "loop" /\ pIdx' = pIdx + 1
    /\ UNCHANGED <<pKind, pSel, pHave>>

\* After the loop: "if all_p_results: ... llm.generate(...)".
PipeGenerate ==
    /\ pStage = "loop"
    /\ pIdx > Len(pSel)
    /\ pHave > 0
    /\ pLog' = Append(pLog, Call("generate", "", TRUE))
    /\ pStage' = "end"
    /\ UNCHANGED <<pKind, pSel, pIdx, pHave>>

\* "else:" the fixed answer, no call of the model.
PipeNoAnswer ==
    /\ pStage = "loop"
    /\ pIdx > Len(pSel)
    /\ pHave = 0
    /\ pStage' = "end"
    /\ UNCHANGED <<pKind, pSel, pIdx, pHave, pLog>>

\* The query is done; the next one starts from scratch.
PipeDone ==
    /\ pStage = "end"
    /\ pKind' = "none"
    /\ pStage' = "idle"
    /\ pSel' = <<>>
    /\ pIdx' = 0
    /\ pHave' = 0
    /\ pLog' = <<>>

NextPipe ==
    \/ \E kind \in {"eval", "ui"}, sel \in Selections :
            PipeRoute(kind, sel)
            /\ UNCHANGED <<buildVars, addrVars, searchVars, routeVars, genVars, raceVars>>
    \/ PipeSkipRoute /\ UNCHANGED <<buildVars, addrVars, searchVars, routeVars, genVars, raceVars>>
    \/ PipeBuildOk /\ UNCHANGED <<buildVars, addrVars, searchVars, routeVars, genVars, raceVars>>
    \/ PipeBuildFail /\ UNCHANGED <<buildVars, addrVars, searchVars, routeVars, genVars, raceVars>>
    \/ \E n \in 0..PipeTopK :
            PipeSearchOk(n)
            /\ UNCHANGED <<buildVars, addrVars, searchVars, routeVars, genVars, raceVars>>
    \/ PipeSearchFail /\ UNCHANGED <<buildVars, addrVars, searchVars, routeVars, genVars, raceVars>>
    \/ PipeGenerate /\ UNCHANGED <<buildVars, addrVars, searchVars, routeVars, genVars, raceVars>>
    \/ PipeNoAnswer /\ UNCHANGED <<buildVars, addrVars, searchVars, routeVars, genVars, raceVars>>
    \/ PipeDone /\ UNCHANGED <<buildVars, addrVars, searchVars, routeVars, genVars, raceVars>>

SpecPipe == Init /\ [][NextPipe]_vars

(***************************************************************************)
(* SpecRace: two callers inside build_tree at the same time, each with its *)
(* own open file.  A cache file is a sequence of tokens: "[" and "]" of    *)
(* the root array, one token per item of the array, and "nul" for a byte   *)
(* range that was never written (a hole left by a write past the end).     *)
(***************************************************************************)
Tok(kind, v) == [tok |-> kind, val |-> v]

\* json.dump(toc, f, indent=2, ensure_ascii=False): the text written
JsonDumpText(v) ==
    IF v.t = "list"
    THEN <<Tok("open", JNull)>> \o [i \in 1..Len(v.kids) |-> Tok("item", v.kids[i])]
         \o <<Tok("close", JNull)>>
    ELSE <<Tok("item", v)>>

\* json.load(f): the value of the text, or JSONDecodeError
JsonLoadText(data) ==
    IF data = <<>>
    THEN [raised |-> TRUE, val |-> JNull]
    ELSE IF Len(data) = 1
         THEN IF data[1].tok = "item"
              THEN [raised |-> FALSE, val |-> data[1].val]
              ELSE [raised |-> TRUE, val |-> JNull]
         ELSE IF /\ data[1].tok = "open"
                 /\ data[Len(data)].tok = "close"
                 /\ \A i \in 2..(Len(data) - 1) : data[i].tok = "item"
              THEN [raised |-> FALSE,
                    val |-> JList([i \in 1..(Len(data) - 2) |-> data[i + 1].val])]
              ELSE [raised |-> TRUE, val |-> JNull]

\* f.write(chunk) at offset pos of a file opened with 'w': the chunk replaces
\* what is there, and a gap between the end of the file and pos reads as nul.
WriteAt(data, pos, chunk) ==
    [i \in 1..Max(Len(data), pos + Len(chunk)) |->
        IF i > pos /\ i <= pos + Len(chunk)
        THEN chunk[i - pos]
        ELSE IF i <= Len(data) THEN data[i] ELSE Tok("nul", JNull)]

\* The text of a tree is written in at most this many tokens per write.
MaxChunk == 4

\* What the model answers to the two builders, parsed.
RaceTocValues ==
    {JList(<<JDict("A", IntPage(1), ""), JDict("B", IntPage(2), "")>>),
     JList(<<JDict("C", IntPage(1), ""), JDict("D", IntPage(2), "")>>),
     JList(<<JDict("E", IntPage(1), "")>>)}

\* The tree a document was cached with before the builders start.
OldToc == AddNodeIds(JList(<<JDict("O", IntPage(1), "")>>), "")
OldData == [exists |-> TRUE, data |-> JsonDumpText(OldToc)]

\* build_tree(pdf_path) finds the cache file: "if not force_rebuild and
\* os.path.exists(cache_path)".
RaceBuildCached(b, d) ==
    /\ bPc[b] = "idle"
    /\ file[GetCachePath(d)].exists
    /\ bDoc' = [bDoc EXCEPT ![b] = d]
    /\ bPc' = [bPc EXCEPT ![b] = "read"]
    /\ UNCHANGED <<file, bToc, bPos, bRes, bMem>>

\* "with open(cache_path, 'r') as f: tree = json.load(f)", outside any try
\* block; "self.trees[pdf_path] = tree; return tree".
RaceLoad(b) ==
    /\ bPc[b] = "read"
    /\ LET r == JsonLoadText(file[GetCachePath(bDoc[b])].data)
       IN  IF r.raised
           THEN /\ bRes' = [bRes EXCEPT ![b] = [kind |-> "raised", val |-> JNull]]
                /\ UNCHANGED bMem
           ELSE /\ bRes' = [bRes EXCEPT ![b] = [kind |-> "returned", val |-> r.val]]
                /\ bMem' = [bMem EXCEPT ![bDoc[b]] = InMem(r.val)]
    /\ bPc' = [bPc EXCEPT ![b] = "done"]
    /\ UNCHANGED <<file, bDoc, bToc, bPos>>

\* build_tree with force_rebuild or without a cache file, up to the parsed
\* and addressed toc (lines 141-185).
RaceBuildMiss(b, d, f, t) ==
    /\ bPc[b] = "idle"
    /\ f \/ ~file[GetCachePath(d)].exists
    /\ bDoc' = [bDoc EXCEPT ![b] = d]
    /\ bToc' = [bToc EXCEPT ![b] = AddNodeIds(t, "")]
    /\ bPc' = [bPc EXCEPT ![b] = "open"]
    /\ UNCHANGED <<file, bPos, bRes, bMem>>

\* open(cache_path, 'w'): the file is created or cut to length 0.
RaceOpen(b) ==
    /\ bPc[b] = "open"
    /\ file' = [file EXCEPT ![GetCachePath(bDoc[b])] = [exists |-> TRUE, data |-> <<>>]]
    /\ bPos' = [bPos EXCEPT ![b] = 0]
    /\ bPc' = [bPc EXCEPT ![b] = "write"]
    /\ UNCHANGED <<bDoc, bToc, bRes, bMem>>

\* json.dump writes the text in one or several writes of the buffered file;
\* each goes to this builder's own offset.
RaceWrite(b, n) ==
    /\ bPc[b] = "write"
    /\ bPos[b] + n <= Len(JsonDumpText(bToc[b]))
    /\ LET path == GetCachePath(bDoc[b])
           chunk == SubSeq(JsonDumpText(bToc[b]), bPos[b] + 1, bPos[b] + n)
       IN  file' = [file EXCEPT ![path] =
                        [exists |-> TRUE, data |-> WriteAt(file[path].data, bPos[b], chunk)]]
    /\ bPos' = [bPos EXCEPT ![b] = bPos[b] + n]
    /\ UNCHANGED <<bPc, bDoc, bToc, bRes, bMem>>

\* The with block ends when everything is written.
RaceClose(b) ==
    /\ bPc[b] = "write"
    /\ bPos[b] = Len(JsonDumpText(bToc[b]))
    /\ bPc' = [bPc EXCEPT ![b] = "register"]
    /\ UNCHANGED <<file, bDoc, bToc, bPos, bRes, bMem>>

\* "self.trees[pdf_path] = toc; return toc"
RaceRegister(b) ==
    /\ bPc[b] = "register"
    /\ bMem' = [bMem EXCEPT ![bDoc[b]] = InMem(bToc[b])]
    /\ bRes' = [bRes EXCEPT ![b] = [kind |-> "returned", val |-> bToc[b]]]
    /\ bPc' = [bPc EXCEPT ![b] = "done"]
    /\ UNCHANGED <<file, bDoc, bToc, bPos>>

\* Each document was cached before, or was not.
InitRace ==
    /\ InitBuildIdle
    /\ InitAddrIdle
    /\ InitSearchIdle
    /\ InitRouteIdle
    /\ InitGenIdle
    /\ InitPipeIdle
    /\ file \in [CacheFiles -> {NoData, OldData}]
    /\ \A c \in CacheFiles \ {GetCachePath(d) : d \in RacePaths} : file[c] = NoData
    /\ bPc = [b \in Builders |-> "idle"]
    /\ bDoc = [b \in Builders |-> ""]
    /\ bToc = [b \in Builders |-> JNull]
    /\ bPos = [b \in Builders |-> 0]
    /\ bRes = [b \in Builders |-> NoResult]
    /\ bMem = [d \in RacePaths |-> NoFile]

NextRace ==
    \/ \E b \in Builders, d \in RacePaths :
            RaceBuildCached(b, d)
            /\ UNCHANGED <<buildVars, addrVars, searchVars, routeVars, genVars, pipeVars>>
    \/ \E b \in Builders :
            RaceLoad(b)
            /\ UNCHANGED <<buildVars, addrVars, searchVars, routeVars, genVars, pipeVars>>
    \/ \E b \in Builders, d \in RacePaths, f \in BOOLEAN, t \in RaceTocValues :
            RaceBuildMiss(b, d, f, t)
            /\ UNCHANGED <<buildVars, addrVars, searchVars, routeVars, genVars, pipeVars>>
    \/ \E b \in Builders :
            RaceOpen(b)
            /\ UNCHANGED <<buildVars, addrVars, searchVars, routeVars, genVars, pipeVars>>
    \/ \E b \in Builders, n \in 1..MaxChunk :
            RaceWrite(b, n)
            /\ UNCHANGED <<buildVars, addrVars, searchVars, routeVars, genVars, pipeVars>>
    \/ \E b \in Builders :
            RaceClose(b)
            /\ UNCHANGED <<buildVars, addrVars, searchVars, routeVars, genVars, pipeVars>>
    \/ \E b \in Builders :
            RaceRegister(b)
            /\ UNCHANGED <<buildVars, addrVars, searchVars, routeVars, genVars, pipeVars>>

SpecRace == InitRace /\ [][NextRace]_vars

(***************************************************************************)
(* Properties.                                                             *)
(***************************************************************************)
\* The response holds nothing that extract_json or json.loads can parse.
Unparseable(r) == r.form \in {"garbage", "empty"}

\* generate gave build_tree a text (possibly empty) rather than an exception.
GotText == genEnd \in {"return", "fallthrough"}

\* One root node titled "Document" with page 1 and no children.
IsSyntheticTree(v) ==
    /\ v.t = "list"
    /\ Len(v.kids) = 1
    /\ v.kids[1].t = "dict"
    /\ v.kids[1].title = "Document"
    /\ v.kids[1].page = IntPage(1)
    /\ ~v.kids[1].ch

\* C1: when the cache file exists and force_rebuild is false, build_tree
\* returns the tree stored in the file, issues no model call and does not
\* write the file; two successive such calls return identical trees.
C1_CachedTreeReturned ==
    (pc = "done" /\ hit) =>
        /\ ~force /\ pre.exists
        /\ outcome = "returned"
        /\ result = JsonLoad(pre)
        /\ calls = 0
        /\ ~wrote
        /\ cache[doc] = pre
        /\ (prev.valid /\ prev.doc = doc => result = prev.val)

\* C1 witness: a second successive cache hit on a document with a nested tree.
C1_Witness ==
    /\ pc = "done" /\ hit
    /\ prev.valid /\ prev.doc = doc
    /\ result = AddNodeIds(TreeNested, "")

\* C2 (as claimed): after a rebuild whose response cannot be parsed, the cache
\* file of a document that had a valid entry still holds that entry.
C2_FailedParseKeepsCache ==
    (pc = "done" /\ ~hit /\ pre.exists /\ GotText /\ Unparseable(resp)) =>
        cache[doc] = pre

\* C3 (as claimed): when the model call ends in a terminal failure (retries
\* exhausted, also on rate limiting), build_tree raises, writes no tree and
\* leaves an existing cache entry unchanged.
C3_TerminalFailurePropagates ==
    (pc = "done" /\ genEnd \in {"raise", "fallthrough"}) =>
        /\ outcome = "raised"
        /\ ~wrote
        /\ cache[doc] = pre

\* C4 (as claimed): for a 1-page document whose model call fails (every
\* attempt raises), build_tree returns the one-root synthetic tree.
C4_FailedCallGivesSyntheticTree ==
    (pc = "done" /\ NumPages(doc) = 1 /\ genEnd = "raise") =>
        /\ outcome = "returned"
        /\ IsSyntheticTree(result)

\* C4 (amended): for a 1-page document whose model call fails (every attempt
\* raises), build_tree raises that failure to its caller, returns no tree and
\* writes none to the cache.
C4_FailedCallRaises ==
    (pc = "done" /\ NumPages(doc) = 1 /\ genEnd = "raise") =>
        /\ outcome = "raised"
        /\ ~wrote
        /\ cache[doc] = pre
        /\ trees[doc] \in {NoFile, InMem(JsonLoad(pre))}

\* C4 witness: build_tree of the 1-page document has raised after the last
\* attempt failed.
C4_Witness ==
    /\ pc = "done" /\ NumPages(doc) = 1
    /\ genEnd = "raise" /\ attempt = max_retries - 1
    /\ outcome = "raised"

\* C5: build_tree never raises a parse error: for every response text it
\* finishes with a tree, and for an empty or unparseable text that tree is
\* exactly one root node titled "Document" with page 1.
C5_ParseNeverRaises ==
    /\ (pc = "done" /\ GotText) => outcome = "returned"
    /\ (pc = "done" /\ GotText /\ Unparseable(resp)) => IsSyntheticTree(result)

\* C5 witness: build_tree returned after the model answered with text that
\* holds no JSON.
C5_Witness ==
    /\ pc = "done" /\ genEnd = "return" /\ resp.form = "garbage"
    /\ outcome = "returned"

\* C6: on a cache miss or forced rebuild the built tree is in the cache file
\* before it is registered in self.trees and before build_tree returns it;
\* a freshly built tree that is returned is exactly what the file holds.
C6_WrittenBeforeReturned ==
    /\ pc = "register" => (wrote /\ cache[doc] = JsonDump(toc))
    /\ (pc = "done" /\ ~hit /\ outcome = "returned") =>
            /\ wrote
            /\ cache[doc].exists
            /\ JsonLoad(cache[doc]) = result
            /\ trees[doc] = InMem(result)

\* C6 witness: a forced rebuild has replaced a cached tree by another one and
\* is about to register it.
C6_Witness ==
    /\ pc = "register" /\ force
    /\ pre.exists /\ cache[doc] # pre
    /\ trees[doc] # InMem(toc)

C8_AddressIsDottedPath ==
    aPass >= 1 =>
        \A p \in NodePaths(aT, <<>>) : NodeAt(aT, p).id = Dotted(p)

\* C8 witness: an addressed tree with a node at depth 3.
C8_Witness ==
    /\ aPass = 1
    /\ \E p \in NodePaths(aT, <<>>) : Len(p) = 3

\* C9: a second _add_node_ids leaves every address and the rest of the tree
\* unchanged.
C9_AssignIdempotent ==
    aPass >= 2 => aT = aPrev

\* C9 witness: a tree of three section nodes, one of which came with a node_id
\* of the model's own, after the second assignment.
C9_Witness ==
    /\ aPass = 2
    /\ Cardinality(NodePaths(aT, <<>>)) = 3
    /\ <<1, 1>> \in NodePaths(aT, <<>>)

\* C10 (as claimed): every node of every persisted tree has a page that is a
\* positive integer.
C10_PersistedPagesPositive ==
    \A d \in Docs :
        cache[d].exists =>
            \A p \in NodePaths(cache[d].val, <<>>) :
                LET pg == NodeAt(cache[d].val, p).page
                IN  pg.k = "int" /\ pg.n >= 1

\* search has ended after its navigation call returned a text.
SearchDone == pc = "sdone" /\ sStage = "nav" /\ outcome # "raised"

\* Every node of the tree has an integer page or none: "page" - 1 is defined.
PagesUsable(tree) ==
    \A p \in NodePaths(tree, <<>>) : NodeAt(tree, p).page.k \in {"int", "none"}

\* The parsed answer is an array of objects.
WellShaped(rel) ==
    /\ rel.t = "list"
    /\ \A i \in 1..Len(rel.kids) : rel.kids[i].t = "dict"

\* The address search looks an entry up by.
LookupId(e) == IF e.id = "" THEN "1" ELSE e.id

\* C11 (as claimed): whatever the model answers, search returns a list and
\* does not raise; when nothing of the answer can be parsed the list is the
\* single match for the first root node, address "1".
C11_SearchHandlesEveryResponse ==
    (SearchDone /\ PagesUsable(sTree)) =>
        /\ sOutcome = "returned"
        /\ (Unparseable(resp) /\ sTree.t = "list" /\ sTree.kids # <<>>) =>
                /\ Len(sResults) = 1
                /\ sResults[1].node_id = "1"
                /\ sResults[1].path = <<1>>

\* The entries of the answer search looks at, and of these the ones whose
\* address resolves in the tree.
Considered == SubSeq(sRel.kids, 1, Min(sTopK, Len(sRel.kids)))
Resolved == SelectSeq(Considered, LAMBDA e : FindNode(sTree, LookupId(e)).found)

\* C12: for an answer that is an array of objects, search returns one result
\* per entry among the first top_k whose address resolves, in the order of the
\* answer, each for the node of that address; entries that do not resolve are
\* dropped without an exception and the list has at most top_k items.
C12_ResultsAreResolvedEntries ==
    (SearchDone /\ WellShaped(sRel) /\ PagesUsable(sTree)) =>
        /\ sOutcome = "returned"
        /\ Len(sResults) = Len(Resolved)
        /\ Len(sResults) <= sTopK
        /\ \A i \in 1..Len(sResults) :
                /\ sResults[i].node_id = Resolved[i].id
                /\ sResults[i].path = FindNode(sTree, LookupId(Resolved[i])).path

\* C12 witness: the answer 1.1, 9, 1, 2 with top_k = 3 on the nested tree: 9
\* is dropped, 2 is beyond top_k, and the results are 1.1 then 1.
C12_Witness ==
    /\ SearchDone
    /\ sRel = AnswerMixed
    /\ sTopK = 3
    /\ sTree = AddNodeIds(TreeNested, "")
    /\ Len(sResults) = 2
    /\ sResults[1].path = <<1, 1>>
    /\ sResults[2].path = <<1>>

\* C13 (as claimed): search returns no more results than the tree has nodes.
C13_AtMostTreeNodes ==
    (SearchDone /\ sOutcome = "returned") =>
        Len(sResults) <= Cardinality(NodePaths(sTree, <<>>))

\* C14: every page index a result's window reads lies in [0, total_pages-1],
\* the pages of its text are among those read, a window starting past the last
\* page is empty, and with integer pages the extraction does not raise.
C14_WindowWithinDocument ==
    SearchDone =>
        /\ (WellShaped(sRel) /\ PagesUsable(sTree)) => sOutcome = "returned"
        /\ \A i \in 1..Len(sResults) :
                LET r == sResults[i]
                IN  /\ \A j \in 1..Len(r.read) : r.read[j] \in 0..(sN - 1)
                    /\ \A j \in 1..Len(r.pages) :
                            \E m \in 1..Len(r.read) : r.read[m] = r.pages[j]
                    /\ r.page - 1 > sN - 1 => (r.read = <<>> /\ r.pages = <<>>)

\* C14 witness: a node whose page is below 1 in a document that has pages;
\* its window is clamped to start at index 0.
C14_Witness ==
    /\ SearchDone
    /\ sN >= 1
    /\ \E i \in 1..Len(sResults) :
            /\ sResults[i].page < 1
            /\ sResults[i].read # <<>>
            /\ sResults[i].read[1] = 0

\* C15 (as claimed): on a tree with no root node search returns the empty
\* list, whatever the model answers.
C15_EmptyTreeGivesNoResult ==
    (SearchDone /\ sTree = TreeEmpty) =>
        /\ sOutcome = "returned"
        /\ sResults = <<>>

\* C16: a step of search or of a build_tree that is not a forced rebuild of
\* document d leaves an existing cache file of d as it is, leaves a tree of d
\* held in memory as it is, and a tree it loads for d is the one in the file.
C16_TreeStableUntilForcedRebuild ==
    [][\A d \in Docs :
            ~(force /\ doc = d) =>
                /\ cache[d].exists => cache'[d] = cache[d]
                /\ (trees[d].exists /\ trees'[d].exists) => trees'[d] = trees[d]
                /\ (cache[d].exists /\ ~trees[d].exists /\ trees'[d].exists) =>
                        trees'[d] = InMem(JsonLoad(cache[d]))]_vars

\* C16 witness: a search that found no tree in memory, took it from the cache
\* through a build_tree that was not forced, and returned a result; the file
\* and the tree in memory still agree.
C16_Witness ==
    /\ SearchDone
    /\ sOutcome = "returned"
    /\ Len(sResults) >= 1
    /\ prev.valid
    /\ prev.doc = doc
    /\ cache[doc].exists
    /\ trees[doc] = InMem(JsonLoad(cache[doc]))
    /\ sTree = trees[doc].val

\* C17: the list route returns has at most top_k names and each of them is
\* an element of the candidate list it was given.
C17_RouteReturnsCandidates ==
    pc = "rdone" =>
        /\ Len(rOut) <= rTopK
        /\ \A i \in 1..Len(rOut) : InList(rOut[i], rDocs)

\* C17 witness: the model names two documents, one of them by a part of its
\* name, and top_k is 1: one candidate comes back, under its full name.
C17_Witness ==
    /\ pc = "rdone"
    /\ rVia = "valid"
    /\ rTopK = 1
    /\ rDocs = <<NameB, NameA>>
    /\ rSel = <<Str(NameA), Str(<<"safety">>)>>
    /\ rOut = <<NameB>>

\* Validation ran to its end and left no usable name.
ZeroUsable ==
    /\ genEnd = "return"
    /\ ~ParseRoute(resp).raised
    /\ ~ValidateLoop(rSel, 1, rDocs, <<>>).raised
    /\ ValidateLoop(rSel, 1, rDocs, <<>>).valid = <<>>

\* C18 (as claimed): when validation leaves no usable name, route returns
\* the top_k candidates in descending order of the number of query tokens
\* their names contain.
C18_KeywordFallback ==
    (pc = "rdone" /\ ZeroUsable) => rOut = KeywordRank(rQuery, rDocs, rTopK)

\* The routing attempt met an error it cannot recover from: generate ended
\* without a response, the bracket span is not JSON, or the array holds an
\* item that is not a string.
Unrecoverable ==
    \/ genEnd \in {"raise", "fallthrough"}
    \/ genEnd = "return" /\ ParseRoute(resp).raised
    \/ genEnd = "return" /\ \E i \in 1..Len(rSel) : ~rSel[i].str

\* C19 (as claimed): after an unrecoverable error route returns the first
\* top_k candidates in their input order.
C19_ErrorGivesFirstTopK ==
    (pc = "rdone" /\ Unrecoverable) => rOut = Take(rDocs, rTopK)

\* C20 (as claimed): a call of generate that has ended either returned the
\* text of a successful response or raised.
C20_GenerateReturnsOrRaises ==
    genEnd # "none" => genEnd \in {"return", "raise"}

\* C25 (as claimed): every tree build_tree returns is a list with at least
\* one item, all its items at every depth are section nodes, and each of them
\* has an address.
C25_TreeIsNonEmptyAddressed ==
    (pc = "done" /\ outcome = "returned") =>
        /\ result.t = "list"
        /\ Len(result.kids) >= 1
        /\ \A i \in 1..Len(result.kids) : result.kids[i].t = "dict"
        /\ \A p \in AllNodePaths(result, <<>>) : NodeAt(result, p).id # ""

\* C28 (as claimed): the node_id of every retrieval result is the address of
\* the tree node whose title and page the result reports.
C28_ResultNamesItsNode ==
    (SearchDone /\ sOutcome = "returned") =>
        \A i \in 1..Len(sResults) :
            LET node == NodeAt(sTree, sResults[i].path)
            IN  /\ sResults[i].title = node.title
                /\ sResults[i].node_id = node.id

\* C29: whenever no call of build_tree or search is under way, every tree in
\* self.trees is the tree its document's cache file holds.
C29_MemoryEqualsCache ==
    pc \in {"idle", "done", "sdone"} =>
        \A d \in Docs :
            trees[d].exists =>
                /\ cache[d].exists
                /\ trees[d] = InMem(JsonLoad(cache[d]))

\* C29 witness: a forced rebuild has replaced the cached tree by a different
\* one and returned; file and memory hold the new tree.
C29_Witness ==
    /\ pc = "done"
    /\ outcome = "returned"
    /\ force
    /\ wrote
    /\ pre.exists
    /\ cache[doc] # pre
    /\ trees[doc] = InMem(JsonLoad(cache[doc]))
    /\ Cardinality(NodePaths(trees[doc].val, <<>>)) >= 2

\* C30 (as claimed): after _add_node_ids no two nodes of the tree carry the
\* same address.
C30_AddressesUnique ==
    aPass >= 1 =>
        \A p, q \in AllNodePaths(aT, <<>>) :
            (p # q /\ NodeAt(aT, p).id # "") => NodeAt(aT, p).id # NodeAt(aT, q).id

\* What holds of every attempt whatever its outcome: attempts are numbered
\* from 0, there are at most max_retries of them, a rate-limited attempt n is
\* followed by a sleep of 2^n seconds, and a success is the last attempt.
AttemptsBounded ==
    /\ Len(gLog) <= max_retries
    /\ pc = "llm" => Len(gLog) < max_retries
    /\ \A i \in 1..Len(gLog) :
            /\ gLog[i].n = i - 1
            /\ gLog[i].kind = "429" => gLog[i].wait = 2 ^ (i - 1)
            /\ gLog[i].kind = "ok" => (i = Len(gLog) /\ gLog[i].wait = 0)

\* C27 (as claimed): at most 3 attempts, 2^n seconds after a rate-limited
\* attempt n, 1 second after every failed attempt, nothing after a success.
C27_EveryFailureSleeps ==
    /\ AttemptsBounded
    /\ \A i \in 1..Len(gLog) : gLog[i].kind = "err" => gLog[i].wait = 1

\* C27 (amended): as above, but the 1 second sleep follows a failed attempt
\* only when another attempt is left; the failure of the last attempt is
\* raised at once.
C27_RetriesBounded ==
    /\ AttemptsBounded
    /\ \A i \in 1..Len(gLog) :
            gLog[i].kind = "err" => gLog[i].wait = (IF i < max_retries THEN 1 ELSE 0)
    /\ genEnd = "raise" => (Len(gLog) = max_retries /\ gLog[max_retries].wait = 0)

\* C27 witness: a rate-limited attempt, a failed one, and a third that fails
\* and ends the call.
C27_Witness ==
    /\ genEnd = "raise"
    /\ Len(gLog) = 3
    /\ gLog[1].kind = "429"
    /\ gLog[2].kind = "err" /\ gLog[2].wait = 1
    /\ gLog[3].kind = "err"

\* C24: the calls of one query come in the order route, then build_tree and
\* search document by document, then the answer model: the first call is
\* route, every search of a document directly follows a build_tree of that
\* document that returned, every document built or searched was routed, and
\* a call of the answer model is the last call.
C24_PipelineOrder ==
    \A i \in 1..Len(pLog) :
        /\ (pLog[i].op = "route") <=> (i = 1)
        /\ pLog[i].op \in {"build_tree", "search"} => InList(pLog[i].doc, pSel)
        /\ pLog[i].op = "search" => pLog[i - 1] = Call("build_tree", pLog[i].doc, TRUE)
        /\ pLog[i].op = "generate" => i = Len(pLog)

\* C24 witness: two routed documents, each built and then searched, and the
\* answer model called after the second search.
C24_Witness ==
    /\ pStage = "end"
    /\ Len(pSel) = 2
    /\ Len(pLog) = 6
    /\ pLog[3].op = "search" /\ pLog[3].doc = pSel[1]
    /\ pLog[5].op = "search" /\ pLog[5].doc = pSel[2]
    /\ pLog[6].op = "generate"

\* C23: for every result, with the node it reports: the pages read are those
\* from the node's page through two further pages that the document has, the
\* text is that of the pages among them that are not blank, cut to at most
\* TextCap characters, and the result carries the node's page (1 when the
\* node has none) and the file name of the document.
C23_ExcerptIsPageWindow ==
    (SearchDone /\ sOutcome = "returned") =>
        \A i \in 1..Len(sResults) :
            LET r == sResults[i]
                node == NodeAt(sTree, r.path)
                pg == IF node.page.k = "none" THEN 1 ELSE node.page.n
                first == Max(0, pg - 1)
                last == Min(pg + 1, sN - 1)
            IN  /\ r.page = pg
                /\ r.source = Basename(doc)
                /\ r.read = Range(first, last)
                /\ r.pages = SelectSeq(r.read, LAMBDA j : j \notin sBlank)
                /\ r.full = JoinChars(r.pages)
                /\ r.chars <= TextCap
                /\ r.chars = (IF r.full > TextCap THEN TextCap ELSE r.full)

\* C23 witness: a node on page 1 of a document of three pages, none blank,
\* kept in a directory: the window is pages 1 to 3, its text is longer than
\* the cap and is cut, and the source is the bare file name.
C23_Witness ==
    /\ SearchDone
    /\ doc = "x/a.pdf"
    /\ Len(sResults) >= 1
    /\ sResults[1].page = 1
    /\ sResults[1].pages = <<0, 1, 2>>
    /\ sResults[1].full > TextCap
    /\ sResults[1].chars = TextCap
    /\ sResults[1].source = "a.pdf"

\* A builder that regenerates the tree (it holds an addressed toc of its own).
Writer(b) == bToc[b] # JNull

\* A builder that took the cache branch.
Reader(b) == bPc[b] \in {"read", "done"} /\ bToc[b] = JNull

\* The builder has opened its cache file for writing.
Opened(b) == Writer(b) /\ bPc[b] \in {"write", "register", "done"}

\* C21: when two callers build the same document at the same time, the cache
\* file ends up holding one caller's complete tree (the last writer wins):
\* once both have returned, the file loads and its value is the tree of one
\* of them.
C21_LastWriterWins ==
    (/\ bPc["b1"] = "done" /\ bPc["b2"] = "done"
     /\ Writer("b1") /\ Writer("b2")
     /\ bDoc["b1"] = bDoc["b2"])
    => LET r == JsonLoadText(file[GetCachePath(bDoc["b1"])].data)
       IN  ~r.raised /\ r.val \in {bToc["b1"], bToc["b2"]}

\* C26: a caller that takes the cache branch while another caller rebuilds
\* the same document gets a complete tree: the one cached before or the
\* rebuilt one; build_tree does not raise.
C26_ReaderGetsCompleteTree ==
    \A b \in Builders :
        (Reader(b) /\ bPc[b] = "done")
        => /\ bRes[b].kind = "returned"
           /\ bRes[b].val \in {OldToc} \cup {bToc[o] : o \in Builders \ {b}}

\* C22: builds of different documents do not disturb each other: each one's
\* cache file holds exactly what that builder has written so far (and what
\* was there before it opened the file), a reader gets the tree cached
\* before, and a finished build has its own tree in the file and in memory.
C22_DifferentDocumentsIndependent ==
    (bDoc["b1"] # bDoc["b2"])
    => \A b \in Builders :
          /\ Opened(b)
                => file[GetCachePath(bDoc[b])]
                     = [exists |-> TRUE,
                        data |-> SubSeq(JsonDumpText(bToc[b]), 1, bPos[b])]
          /\ (bDoc[b] # "" /\ ~Opened(b))
                => file[GetCachePath(bDoc[b])] \in {NoData, OldData}
          /\ (Reader(b) /\ bPc[b] = "done")
                => /\ bRes[b] = [kind |-> "returned", val |-> OldToc]
                   /\ bMem[bDoc[b]] = InMem(OldToc)
          /\ (Writer(b) /\ bPc[b] = "done")
                => /\ JsonLoadText(file[GetCachePath(bDoc[b])].data)
                        = [raised |-> FALSE, val |-> bToc[b]]
                   /\ bRes[b] = [kind |-> "returned", val |-> bToc[b]]
                   /\ bMem[bDoc[b]] = InMem(bToc[b])

\* Both builders are part-way through writing, each for its own document.
C22_Witness ==
    /\ bDoc["b1"] = "x/a.pdf" /\ bDoc["b2"] = "y/a.pdf"
    /\ bPc["b1"] = "write" /\ bPos["b1"] = 2
    /\ bPc["b2"] = "write" /\ bPos["b2"] = 1
    /\ bToc["b1"] # bToc["b2"]

====
